---- MODULE Spec2Model ----
(***************************************************************************)
(* Model of benchmarks.py: the generation of the tracking file from the    *)
(* benchmark configuration (main, generate_all_benchmarks, product_dict,   *)
(* generate_docker) and the dispatcher (runner, run_cycle) that reconciles *)
(* the tracking file with the live containers and the GPU occupancy.       *)
(*                                                                         *)
(* Strings are real strings (names are built with \o as the f-strings do); *)
(* a docker command line is a record of the parts of the command line, a   *)
(* command template is a sequence of literal and placeholder segments.     *)
(* Not modelled: the wandb and mount options of the command line and       *)
(* clean_wandb (none of them is read by the dispatcher).                   *)
(***************************************************************************)
EXTENDS Integers, Sequences, FiniteSets, TLC

VARIABLES
    config,                 \* the parsed YAML file (get_config); never written
    args,                   \* the command line flags of the running process
    pc,                     \* where the process is
    templates_ref,          \* config['benchmarks-template'] of the process, mutated by merge
    sys_i,                  \* position of the loop over config["systems"]
    bench_i,                \* position of the loop over config["benchmarks"]
    this_benchmark_config,  \* the merged configuration of the last benchmark handled
    benchmarks_params,      \* list of product_dict of the last benchmark handled
    tracking_file,          \* the CSV file: [exists, lines]
    df,                     \* the DataFrame of the running pass
    running_containers_list,\* names collected by the pass
    container,              \* the loop variable of "for container in ..." (bound or not)
    gpus_status_dict,       \* the last occupancy snapshot of the pass
    idx,                    \* position of the loop over df.iterrows()
    live,                   \* the containers the docker daemon runs, newest first
    launches,               \* history: how often the command of each row was issued
    launched,               \* history: rows whose command was issued in this pass
    last_error              \* history: the exception that ended the process, or "none"

vars == <<config, args, pc, templates_ref, sys_i, bench_i, this_benchmark_config,
          benchmarks_params, tracking_file, df, running_containers_list, container,
          gpus_status_dict, idx, live, launches, launched, last_error>>

(***************************************************************************)
(* Bounds of the model.                                                    *)
(***************************************************************************)
\* largest process count the occupancy query reports for one device
MaxProc == 1
\* the count of the launches of one row saturates here
MaxLaunches == 1
\* how many containers the docker daemon runs at once
MaxLive == 2
\* a new process is started in append mode only while the file has at most this many rows
MaxAppendRows == 2

\* the indices of the GPUs of the host (GPUStatCollection.new_query reports them all),
\* and an index that a configuration can name and the host does not have
HostGpus == {0, 1}
MissingGpu == Cardinality(HostGpus)

(***************************************************************************)
(* Helpers on sequences.                                                   *)
(***************************************************************************)
Range(s) == {s[i] : i \in DOMAIN s}

RECURSIVE Flatten(_)
Flatten(ss) == IF ss = <<>> THEN <<>> ELSE Head(ss) \o Flatten(Tail(ss))

RECURSIVE ProdLen(_)
ProdLen(axes) == IF axes = <<>> THEN 1 ELSE Len(Head(axes).vals) * ProdLen(Tail(axes))

(***************************************************************************)
(* product_dict: the cartesian product of the axes, as a list of dicts, in *)
(* the order of itertools.product (the rightmost axis varies fastest).     *)
(* An axis is [name, vals]; the names are distinct (they are dict keys).   *)
(***************************************************************************)
RECURSIVE product_dict_left_fastest(_)
product_dict_left_fastest(axes) ==
    IF axes = <<>> THEN << <<>> >>
    ELSE LET h == axes[Len(axes)]
             rest == product_dict_left_fastest(SubSeq(axes, 1, Len(axes) - 1))
         IN  Flatten([i \in 1..Len(h.vals) |->
                        [j \in 1..Len(rest) |-> rest[j] @@ (h.name :> h.vals[i])]])

RECURSIVE product_dict(_)
product_dict(axes) ==
    IF axes = <<>> THEN << <<>> >>
    ELSE LET h == Head(axes)
             rest == product_dict(Tail(axes))
         IN  Flatten([i \in 1..Len(h.vals) |->
                        [j \in 1..Len(rest) |-> (h.name :> h.vals[i]) @@ rest[j]]])

(***************************************************************************)
(* merge(benchmark_template, benchmark_config) of mergedeep, with the      *)
(* default strategy REPLACE: for every key of the source, two maps are     *)
(* merged key by key, anything else (scalar, list) replaces the value of   *)
(* the destination. A merged configuration has the fields                  *)
(*   active, params (the axes, an ordered dict), preparation (a list of    *)
(*   templates, empty when the key is absent), commands (capability ->     *)
(*   template, config['docker']['executable']['commands']);                *)
(* an override has any subset of them.                                     *)
(***************************************************************************)
AxisNames(axes) == {axes[i].name : i \in DOMAIN axes}

AxisOf(axes, n) == CHOOSE a \in Range(axes) : a.name = n

merge_axes(dst, src) ==
    [i \in DOMAIN dst |-> IF dst[i].name \in AxisNames(src)
                          THEN AxisOf(src, dst[i].name) ELSE dst[i]]
    \o SelectSeq(src, LAMBDA a : a.name \notin AxisNames(dst))

merge_commands(dst, src) ==
    [c \in (DOMAIN dst) \cup (DOMAIN src) |-> IF c \in DOMAIN src THEN src[c] ELSE dst[c]]

merge(dst, src) ==
    [active      |-> IF "active" \in DOMAIN src THEN src.active ELSE dst.active,
     params      |-> IF "params" \in DOMAIN src
                     THEN merge_axes(dst.params, src.params) ELSE dst.params,
     preparation |-> IF "preparation" \in DOMAIN src THEN src.preparation ELSE dst.preparation,
     commands    |-> IF "commands" \in DOMAIN src
                     THEN merge_commands(dst.commands, src.commands) ELSE dst.commands]

(***************************************************************************)
(* template.format on the replacements: a template is a sequence        *)
(* of segments, [kind |-> "lit", text] or [kind |-> "ph", text |-> name].  *)
(* A placeholder whose name is no key raises KeyError; otherwise every     *)
(* placeholder is replaced by the text of its value.                       *)
(***************************************************************************)
Lit(t) == [kind |-> "lit", text |-> t]
Ph(n) == [kind |-> "ph", text |-> n]

format_keep_unresolved(template, repl) ==
    [error |-> FALSE,
     out   |-> [i \in DOMAIN template |->
                  IF template[i].kind = "ph" /\ template[i].text \in DOMAIN repl
                  THEN Lit(repl[template[i].text]) ELSE template[i]]]

format(template, repl) ==
    LET missing == \E i \in DOMAIN template :
                       template[i].kind = "ph" /\ template[i].text \notin DOMAIN repl
    IN  [error |-> missing,
         out   |-> IF missing THEN <<>>
                   ELSE [i \in DOMAIN template |->
                           IF template[i].kind = "ph"
                           THEN Lit(repl[template[i].text]) ELSE template[i]]]

\* benchmark_cmd: every preparation rendered and followed by " && "
RECURSIVE format_preparation(_, _)
format_preparation(preparation, repl) ==
    IF preparation = <<>> THEN [error |-> FALSE, out |-> <<>>]
    ELSE LET h == format(Head(preparation), repl)
             t == format_preparation(Tail(preparation), repl)
         IN  IF h.error \/ t.error THEN [error |-> TRUE, out |-> <<>>]
             ELSE [error |-> FALSE, out |-> h.out \o <<Lit(" && ")>> \o t.out]

(***************************************************************************)
(* generate_docker: the rows of one (system, benchmark, parameter          *)
(* assignment), one per enabled capability that has a command template.    *)
(***************************************************************************)
RECURSIVE join_devices(_)
join_devices(ids) ==
    IF ids = <<>> THEN ""
    ELSE IF Len(ids) = 1 THEN ToString(ids[1])
    ELSE ToString(ids[1]) \o "," \o join_devices(Tail(ids))

\* {**benchmark_config['params'], **extra_replacements}, every value as str() prints it
cmd_replacements(system, benchmark_name, params, capability) ==
    LET extra == [NVIDIA_VISIBLE_DEVICES |-> join_devices(system.devices_ids),
                  NB_CUDA_DEVICES        |-> ToString(Len(system.devices_ids)),
                  SYSTEM_NAME            |-> system.name,
                  BENCHMARK_NAME         |-> benchmark_name,
                  CAPABILITY             |-> capability]
    IN  extra @@ [n \in DOMAIN params |-> ToString(params[n])]

run_name(benchmark_name, system_name, capability, repl) ==
    benchmark_name \o "-" \o system_name \o "-" \o capability \o "-B" \o repl["batch-size"]
        \o "xE" \o repl["epochs"] \o "xLR" \o repl["learning-rate"]

docker_name_numbered(benchmark_name, system_name, capability) ==
    benchmark_name \o "-" \o system_name \o "-" \o capability
        \o "-" \o ToString(Len(tracking_file.lines))

docker_name(benchmark_name, system_name, capability) ==
    benchmark_name \o "-" \o system_name \o "-" \o capability

\* the row of one capability
experiment(system, benchmark_name, params, cap, interactive_mode, repl, benchmark_cmd) ==
    [kind           |-> "row",
     benchmark_name |-> benchmark_name,
     system_name    |-> system.name,
     devices        |-> join_devices(system.devices_ids),
     docker_name    |-> docker_name(benchmark_name, system.name, cap.name),
     status         |-> "PENDING",
     cmd |-> [run_mode      |-> IF interactive_mode THEN "it" ELSE "d",
              name          |-> run_name(benchmark_name, system.name, cap.name, repl),
              devices       |-> join_devices(system.devices_ids),
              capability    |-> cap.name,
              image         |-> benchmark_name,
              benchmark_cmd |-> benchmark_cmd]]

\* one iteration of "for capability, is_active in ...": [error, rows]
generate_capability(system, benchmark_name, benchmark_config, params, cap, interactive_mode) ==
    LET repl == cmd_replacements(system, benchmark_name, params, cap.name)
        prep == format_preparation(benchmark_config.preparation, repl)
        exe  == format(benchmark_config.commands[cap.name], repl)
        none == [error |-> FALSE, rows |-> <<>>]
        fail == [error |-> TRUE, rows |-> <<>>]
    IN  IF ~cap.active THEN none
        ELSE IF ~({"batch-size", "epochs"} \subseteq DOMAIN params) THEN fail
        ELSE IF prep.error THEN fail
        ELSE IF cap.name \notin DOMAIN benchmark_config.commands THEN none
        ELSE IF exe.error THEN fail
        ELSE IF "learning-rate" \notin DOMAIN repl THEN fail
        ELSE [error |-> FALSE,
              rows  |-> <<experiment(system, benchmark_name, params, cap, interactive_mode,
                                     repl, prep.out \o exe.out)>>]

RECURSIVE generate_capabilities(_, _, _, _, _, _)
generate_capabilities(system, benchmark_name, benchmark_config, params, caps, interactive_mode) ==
    IF caps = <<>> THEN [error |-> FALSE, rows |-> <<>>]
    ELSE LET h == generate_capability(system, benchmark_name, benchmark_config, params,
                                      Head(caps), interactive_mode)
         IN  IF h.error THEN [error |-> TRUE, rows |-> <<>>]
             ELSE LET t == generate_capabilities(system, benchmark_name, benchmark_config,
                                                 params, Tail(caps), interactive_mode)
                  IN  IF t.error THEN [error |-> TRUE, rows |-> <<>>]
                      ELSE [error |-> FALSE, rows |-> h.rows \o t.rows]

\* the rows are written by one writerows at the end: an exception writes none of them
generate_docker(system, benchmark_name, benchmark_config, params, interactive_mode) ==
    generate_capabilities(system, benchmark_name, benchmark_config, params,
                          system.compute_capabilities, interactive_mode)

\* the loop "for benchmark_params in benchmarks_params": the rows appended to the file
\* until the first exception
RECURSIVE generate_params(_, _, _, _, _)
generate_params(system, benchmark_name, benchmark_config, assignments, interactive_mode) ==
    IF assignments = <<>> THEN [error |-> FALSE, rows |-> <<>>]
    ELSE LET h == generate_docker(system, benchmark_name, benchmark_config,
                                  Head(assignments), interactive_mode)
         IN  IF h.error THEN [error |-> TRUE, rows |-> <<>>]
             ELSE LET t == generate_params(system, benchmark_name, benchmark_config,
                                           Tail(assignments), interactive_mode)
                  IN  [error |-> t.error, rows |-> h.rows \o t.rows]

(***************************************************************************)
(* The configurations the model is run on. A system is                     *)
(* [name, active, devices_ids, compute_capabilities (ordered dict)], a     *)
(* benchmark [name, benchmark_template, override].                         *)
(***************************************************************************)
CmdOk == <<Lit("python train.py --bs "), Ph("batch-size"), Lit(" --gpus "), Ph("NB_CUDA_DEVICES")>>
CmdBad == <<Lit("python train.py --wd "), Ph("weight-decay")>>
PrepOk == <<Lit("pip install -r requirements.txt")>>
PrepBad == <<Lit("export SEED="), Ph("seed")>>

Axis(n, v) == [name |-> n, vals |-> v]
AxesFull == <<Axis("batch-size", <<32, 64>>), Axis("epochs", <<1>>), Axis("learning-rate", <<1>>)>>
AxesOne == <<Axis("batch-size", <<32>>), Axis("epochs", <<1>>), Axis("learning-rate", <<1>>)>>
AxesNoLR == <<Axis("batch-size", <<32, 64>>), Axis("epochs", <<1>>)>>
AxesDup == <<Axis("batch-size", <<32, 32>>), Axis("epochs", <<1>>), Axis("learning-rate", <<1>>)>>
AxesTwo == <<Axis("batch-size", <<32, 64>>), Axis("epochs", <<1, 2>>), Axis("learning-rate", <<1>>)>>
AxesEmpty == <<Axis("batch-size", <<>>), Axis("epochs", <<1>>), Axis("learning-rate", <<1>>)>>

System(n, a, d, c16, c32) ==
    [name |-> n, active |-> a, devices_ids |-> d,
     compute_capabilities |-> <<[name |-> "fp16", active |-> c16],
                                [name |-> "fp32", active |-> c32]>>]

Template(a, p, prep, cmds) ==
    [active |-> a, params |-> p, preparation |-> prep, commands |-> cmds]

\* a benchmark of config["benchmarks"]: its name and its own keys, which are the
\* overrides merged into the template it names
Benchmark(n, o) == [name |-> n, config |-> o]

NoOverride == [benchmark_template |-> "t1"]
OvActive(a) == [benchmark_template |-> "t1", active |-> a]
OvParams(p) == [benchmark_template |-> "t1", params |-> p]
OvCommands(c) == [benchmark_template |-> "t1", commands |-> c]
OvPreparation(p) == [benchmark_template |-> "t1", preparation |-> p]

\* the configurations of the dispatcher runs: few rows, every shape of row
DispatchConfigs ==
    { \* two rows that differ in batch-size only, on device 0
      [systems |-> <<System("s1", TRUE, <<0>>, TRUE, FALSE)>>,
       benchmarks_template |-> [t1 |-> Template(TRUE, AxesFull, <<>>, [fp16 |-> CmdOk])],
       benchmarks |-> <<Benchmark("b1", NoOverride)>>],
      \* two rows of two capabilities, on devices 0 and 1
      [systems |-> <<System("s1", TRUE, <<0, 1>>, TRUE, TRUE)>>,
       benchmarks_template |-> [t1 |-> Template(TRUE, AxesOne, <<PrepOk>>,
                                                [fp16 |-> CmdOk, fp32 |-> CmdOk])],
       benchmarks |-> <<Benchmark("b1", NoOverride)>>],
      \* a row on a device the host does not have, then a row on device 1; an inactive system
      [systems |-> <<System("s1", TRUE, <<MissingGpu>>, TRUE, FALSE),
                     System("s2", FALSE, <<0>>, TRUE, FALSE),
                     System("s3", TRUE, <<1>>, TRUE, FALSE)>>,
       benchmarks_template |-> [t1 |-> Template(TRUE, AxesOne, <<>>, [fp16 |-> CmdOk])],
       benchmarks |-> <<Benchmark("b1", NoOverride)>>],
      \* a system whose name is a string that read_csv takes for a missing value
      [systems |-> <<System("NA", TRUE, <<1>>, TRUE, FALSE)>>,
       benchmarks_template |-> [t1 |-> Template(TRUE, AxesOne, <<>>, [fp16 |-> CmdOk])],
       benchmarks |-> <<Benchmark("b1", NoOverride)>>],
      \* the second benchmark references a placeholder that no parameter gives
      [systems |-> <<System("s1", TRUE, <<0>>, TRUE, FALSE)>>,
       benchmarks_template |-> [t1 |-> Template(TRUE, AxesOne, <<>>, [fp16 |-> CmdOk])],
       benchmarks |-> <<Benchmark("b1", NoOverride),
                        Benchmark("b2", OvCommands([fp16 |-> CmdBad]))>>] }

\* the configurations of the generation runs
GenSystems ==
    { <<System("s1", TRUE, d1, c16, c32)>> :
          d1 \in {<<0>>, <<0, 1>>}, c16 \in BOOLEAN, c32 \in BOOLEAN }
    \cup
    { <<System("s1", a1, <<0>>, TRUE, FALSE), System("s2", TRUE, <<1>>, c16, TRUE)>> :
          a1 \in BOOLEAN, c16 \in BOOLEAN }

GenTemplates ==
    { Template(TRUE, p, prep, cmds) :
          p \in {AxesFull, AxesNoLR, AxesDup, AxesTwo, AxesEmpty},
          prep \in {<<>>, <<PrepOk, PrepBad>>},
          cmds \in {[fp16 |-> CmdOk], [fp16 |-> CmdOk, fp32 |-> CmdBad]} }

GenBenchmarks ==
    { <<Benchmark("b1", o)>> :
          o \in { NoOverride, OvActive(FALSE),
                  OvParams(<<Axis("learning-rate", <<2, 3>>)>>),
                  OvCommands([fp32 |-> CmdOk]),
                  OvPreparation(<<PrepOk>>) } }
    \cup
    { <<Benchmark("b1", o1), Benchmark("b2", o2)>> :
          o1 \in {NoOverride, OvActive(FALSE), OvParams(<<Axis("batch-size", <<16>>)>>)},
          o2 \in {NoOverride, OvActive(TRUE)} }

GenConfigs ==
    { [systems |-> s, benchmarks_template |-> [t1 |-> t], benchmarks |-> b] :
          s \in GenSystems, t \in GenTemplates, b \in GenBenchmarks }

(***************************************************************************)
(* The state of a process and of the host.                                 *)
(***************************************************************************)
HeaderLine == [kind |-> "header"]
NoFile == [exists |-> FALSE, lines |-> <<>>]
Unbound == [bound |-> FALSE, name |-> ""]
Bound(n) == [bound |-> TRUE, name |-> n]

\* the rows of the tracking file (what pd.read_csv returns: the lines after the header)
Rows(file) == IF file.lines = <<>> THEN <<>> ELSE Tail(file.lines)

\* pd.read_csv infers the type of every cell: the strings of its default na_values are
\* read as a missing value (NaN), anything else in the table is kept (the device numbers
\* are read as numbers and printed back as join_devices printed them)
na_values ==
    {"", "#N/A", "#N/A N/A", "#NA", "-1.#IND", "-1.#QNAN", "-NaN", "-nan", "1.#IND",
     "1.#QNAN", "<NA>", "N/A", "NA", "NULL", "NaN", "n/a", "nan", "null"}

\* a missing cell of the DataFrame, named as str() prints it
NaN == "nan"

read_cell(s) == IF s \in na_values THEN NaN ELSE s

\* df.to_csv writes a missing cell as the empty string (na_rep)
write_cell(v) == IF v = NaN THEN "" ELSE v

\* pd.read_csv(tracking_file): the DataFrame of the lines after the header
read_csv(file) ==
    [i \in DOMAIN Rows(file) |->
        [Rows(file)[i] EXCEPT !.benchmark_name = read_cell(@),
                              !.system_name = read_cell(@),
                              !.devices = read_cell(@),
                              !.docker_name = read_cell(@),
                              !.status = read_cell(@)]]

\* df.to_csv(tracking_file, index=False, header=True): the header and the rows
to_csv(d) ==
    <<HeaderLine>> \o
    [i \in DOMAIN d |->
        [d[i] EXCEPT !.benchmark_name = write_cell(@),
                     !.system_name = write_cell(@),
                     !.devices = write_cell(@),
                     !.docker_name = write_cell(@),
                     !.status = write_cell(@)]]

\* the command line flags that main reads
Args ==
    [run_only : BOOLEAN, skip_generate_tracking : BOOLEAN, append_to_tracking_file : BOOLEAN,
     run : BOOLEAN, interactive_mode : BOOLEAN, kill_all : BOOLEAN]

\* the flags of the generation runs: no container runs on their host, so that kill_all
\* has nothing to kill there
GenArgs == {a \in Args : ~a.kill_all}

\* runner(tracking_file, interactive_mode, show_cmd): the only flag the dispatcher reads
RunnerArgs(a) ==
    [run_only |-> FALSE, skip_generate_tracking |-> FALSE, append_to_tracking_file |-> FALSE,
     run |-> FALSE, interactive_mode |-> a.interactive_mode, kill_all |-> FALSE]

Generates_unless_run_only(a) == ~a.run_only

Generates(a) == ~a.run_only /\ ~a.skip_generate_tracking

\* the occupancy snapshots GPUStatCollection.new_query can return
Snapshots == [HostGpus -> 0..MaxProc]
\* gpus_status_dict before the first query of a process
NoSnapshot == [g \in {} |-> 0]

StartProcess(cfg, a) ==
    /\ config = cfg
    /\ args = a
    /\ pc = "main"
    /\ templates_ref = cfg.benchmarks_template
    /\ sys_i = 1
    /\ bench_i = 1
    /\ this_benchmark_config = <<>>
    /\ benchmarks_params = <<>>
    /\ df = <<>>
    /\ running_containers_list = <<>>
    /\ container = Unbound
    /\ gpus_status_dict = NoSnapshot
    /\ idx = 1
    /\ launched = {}
    /\ last_error = "none"

Init ==
    /\ \E cfg \in DispatchConfigs, a \in Args : StartProcess(cfg, a)
    /\ tracking_file = NoFile
    /\ live = <<>>
    /\ launches = <<>>

\* the runs checked for progress start on the configuration of three systems
LiveConfigs == {cfg \in DispatchConfigs : Len(cfg.systems) = 3}

InitLive ==
    /\ \E cfg \in LiveConfigs, a \in Args : StartProcess(cfg, a)
    /\ tracking_file = NoFile
    /\ live = <<>>
    /\ launches = <<>>

InitGen ==
    /\ \E cfg \in GenConfigs, a \in GenArgs : StartProcess(cfg, a)
    /\ tracking_file = NoFile
    /\ live = <<>>
    /\ launches = <<>>

(***************************************************************************)
(* main: the tracking file is initialised, then generated, then run.       *)
(***************************************************************************)
\* lines 271-275: the dispatcher is started, or the process ends
RunOrExit ==
    IF args.run \/ args.run_only \/ args.interactive_mode
    THEN pc' = "run_cycle" /\ args' = RunnerArgs(args)
    ELSE pc' = "exited" /\ UNCHANGED args

\* lines 229-233: "docker kill $(docker ps -q)" ends every running container
kill_all_containers(containers) == <<>>

Main ==
    /\ pc = "main"
    /\ live' = IF args.kill_all THEN kill_all_containers(live) ELSE live
    /\ LET reset == Generates(args)
                    /\ (~args.append_to_tracking_file \/ ~tracking_file.exists)
       IN  /\ tracking_file' = IF reset THEN [exists |-> TRUE, lines |-> <<HeaderLine>>]
                               ELSE tracking_file
           /\ launches' = IF reset THEN <<>> ELSE launches
    /\ IF Generates(args) THEN pc' = "generate" /\ UNCHANGED args ELSE RunOrExit
    /\ UNCHANGED <<config, templates_ref, sys_i, bench_i, this_benchmark_config,
                   benchmarks_params, df, running_containers_list, container,
                   gpus_status_dict, idx, launched, last_error>>

\* "if not system_config['active']": the system is skipped
SkipSystem ==
    /\ pc = "generate"
    /\ sys_i <= Len(config.systems)
    /\ ~config.systems[sys_i].active \/ config.benchmarks = <<>>
    /\ sys_i' = sys_i + 1
    /\ bench_i' = 1
    /\ UNCHANGED <<config, args, pc, templates_ref, this_benchmark_config, benchmarks_params,
                   tracking_file, df, running_containers_list, container, gpus_status_dict,
                   idx, live, launches, launched, last_error>>

\* one iteration of "for benchmark_name, benchmark_config in config['benchmarks'].items()"
GenerateBenchmark ==
    /\ pc = "generate"
    /\ sys_i <= Len(config.systems)
    /\ config.systems[sys_i].active
    /\ bench_i <= Len(config.benchmarks)
    /\ LET system == config.systems[sys_i]
           benchmark == config.benchmarks[bench_i]
           tname == benchmark.config.benchmark_template
           merged == merge(templates_ref[tname], benchmark.config)
           assignments == product_dict(merged.params)
           gen == generate_params(system, benchmark.name, merged, assignments,
                                  args.interactive_mode)
           raised == merged.active /\ gen.error
           last == bench_i = Len(config.benchmarks)
       IN  /\ templates_ref' = [templates_ref EXCEPT ![tname] = merged]
           /\ this_benchmark_config' = <<merged>>
           /\ benchmarks_params' = IF merged.active THEN assignments ELSE benchmarks_params
           /\ tracking_file' = IF merged.active
                               THEN [tracking_file EXCEPT !.lines = @ \o gen.rows]
                               ELSE tracking_file
           /\ launches' = IF merged.active
                          THEN launches \o [i \in 1..Len(gen.rows) |-> 0]
                          ELSE launches
           /\ pc' = IF raised THEN "exited" ELSE pc
           /\ last_error' = IF raised THEN "KeyError" ELSE last_error
           /\ sys_i' = IF raised THEN sys_i ELSE IF last THEN sys_i + 1 ELSE sys_i
           /\ bench_i' = IF raised THEN bench_i ELSE IF last THEN 1 ELSE bench_i + 1
    /\ UNCHANGED <<config, args, df, running_containers_list, container, gpus_status_dict,
                   idx, live, launched>>

\* generate_all_benchmarks returns: main goes on to lines 271-275
GenerateDone ==
    /\ pc = "generate"
    /\ sys_i > Len(config.systems)
    /\ RunOrExit
    /\ UNCHANGED <<config, templates_ref, sys_i, bench_i, this_benchmark_config,
                   benchmarks_params, tracking_file, df, running_containers_list, container,
                   gpus_status_dict, idx, live, launches, launched, last_error>>

\* a new process on the same configuration file and tracking file, with flags a
NewProcess(a) ==
    /\ pc = "exited"
    /\ args' = a
    /\ pc' = "main"
    /\ templates_ref' = config.benchmarks_template
    /\ sys_i' = 1
    /\ bench_i' = 1
    /\ this_benchmark_config' = <<>>
    /\ benchmarks_params' = <<>>
    /\ df' = <<>>
    /\ running_containers_list' = <<>>
    /\ container' = Unbound
    /\ idx' = 1
    /\ launched' = {}
    /\ last_error' = "none"
    /\ UNCHANGED <<config, tracking_file, gpus_status_dict, live, launches>>

\* the program is started again with any flags of the generation runs
Invoke ==
    \E a \in GenArgs :
        /\ (Generates(a) /\ a.append_to_tracking_file /\ tracking_file.exists)
               => Len(Rows(tracking_file)) <= MaxAppendRows
        /\ NewProcess(a)

\* the dispatcher is started again on the tracking file (--run_only)
Restart ==
    \E a \in Args :
        /\ a.run_only /\ ~a.run /\ ~a.skip_generate_tracking /\ ~a.append_to_tracking_file
        /\ NewProcess(a)

NextGen == Main \/ SkipSystem \/ GenerateBenchmark \/ GenerateDone \/ Invoke

SpecGen == InitGen /\ [][NextGen]_vars

(***************************************************************************)
(* The host: containers start and exit outside the dispatcher, at any      *)
(* time: before a pass, between two rows of a pass (the pass waits in      *)
(* os.system and time.sleep), between two passes and while no dispatcher   *)
(* runs. The dispatcher reads them when it lists them at the start of a    *)
(* pass and, through docker, at every docker run (Launch).                 *)
(***************************************************************************)
\* names an outside "docker run" may use: those of the records, and another one
ExternalNames == {r.docker_name : r \in Range(Rows(tracking_file))} \cup {"foreign"}

Remove(s, i) == [j \in 1..(Len(s) - 1) |-> IF j < i THEN s[j] ELSE s[j + 1]]

ContainerStart ==
    /\ Len(live) < MaxLive
    /\ \E n \in ExternalNames \ Range(live) : live' = <<n>> \o live
    /\ UNCHANGED <<config, args, pc, templates_ref, sys_i, bench_i, this_benchmark_config,
                   benchmarks_params, tracking_file, df, running_containers_list, container,
                   gpus_status_dict, idx, launches, launched, last_error>>

ContainerExit ==
    /\ \E i \in DOMAIN live : live' = Remove(live, i)
    /\ UNCHANGED <<config, args, pc, templates_ref, sys_i, bench_i, this_benchmark_config,
                   benchmarks_params, tracking_file, df, running_containers_list, container,
                   gpus_status_dict, idx, launches, launched, last_error>>

(***************************************************************************)
(* run_cycle: one reconcile pass, in the steps between which the host can  *)
(* change (every row of the loop ends in a sleep or is a step of its own). *)
(***************************************************************************)
\* df.loc[df['docker_name']==name, ['status']] = status
set_status(d, name, status) ==
    [i \in DOMAIN d |-> IF d[i].docker_name = name THEN [d[i] EXCEPT !.status = status]
                        ELSE d[i]]

\* the loop "for container in client.containers.list()" on the DataFrame
RECURSIVE mark_running(_, _)
mark_running(d, names) ==
    IF names = <<>> THEN d
    ELSE mark_running(set_status(d, Head(names), "RUNNING"), Tail(names))

\* str(row['devices']).split(',') and int(gpu): the indices that join_devices printed
DeviceLists == UNION {[1..n -> HostGpus \cup {MissingGpu}] : n \in 1..Cardinality(HostGpus)}
split_devices(s) == CHOOSE ids \in DeviceLists : join_devices(ids) = s

sum_processes_last_device(gpus, snap) == snap[gpus[Len(gpus)]]

RECURSIVE sum_processes(_, _)
sum_processes(gpus, snap) ==
    IF gpus = <<>> THEN 0 ELSE snap[Head(gpus)] + sum_processes(Tail(gpus), snap)

nb_processes_first_device(gpus, snap) == snap[gpus[1]]

nb_processes_stale(gpus, snap) == sum_processes(gpus, gpus_status_dict)

\* nb_processes of the row: the counts of its devices, added up
nb_processes(gpus, snap) == sum_processes(gpus, snap)

\* the locals of a process that has ended
ProcessGone ==
    /\ df' = <<>>
    /\ running_containers_list' = <<>>
    /\ container' = Unbound
    /\ gpus_status_dict' = NoSnapshot
    /\ idx' = 1

Raise(e) == pc' = "exited" /\ last_error' = e /\ ProcessGone

\* lines 172-182: the file is read, the containers are listed and marked RUNNING
RunCycleStart ==
    /\ pc = "run_cycle"
    /\ IF ~tracking_file.exists
       THEN Raise("FileNotFoundError") /\ UNCHANGED launched
       ELSE /\ df' = mark_running(read_csv(tracking_file), live)
            /\ running_containers_list' = live
            /\ container' = IF live = <<>> THEN Unbound ELSE Bound(live[Len(live)])
            /\ \E snap \in Snapshots : gpus_status_dict' = snap
            /\ idx' = 1
            /\ pc' = "rows"
            /\ launched' = {}
            /\ UNCHANGED last_error
    /\ UNCHANGED <<config, args, templates_ref, sys_i, bench_i, this_benchmark_config,
                   benchmarks_params, tracking_file, live, launches>>

\* os.system(cmd): the command of the row is issued. A detached container is live
\* afterwards unless docker refuses it (its name is taken, the host is full, the image
\* is missing); a foreground container has ended when os.system returns.
Launch(row) ==
    /\ launches' = [launches EXCEPT ![idx] = IF @ < MaxLaunches THEN @ + 1 ELSE @]
    /\ launched' = launched \cup {idx}
    /\ LET run_mode == IF args.interactive_mode THEN "it" ELSE row.cmd.run_mode
       IN  \/ live' = live
           \/ /\ run_mode = "d"
              /\ row.cmd.name \notin Range(live)
              /\ Len(live) < MaxLive
              /\ live' = <<row.cmd.name>> \o live

\* lines 184-210: one iteration of "for index, row in df.iterrows()"
ProcessRow ==
    /\ pc = "rows"
    /\ idx <= Len(df)
    /\ LET row == df[idx]
           stale == row.status = "RUNNING"
                    /\ row.docker_name \notin Range(running_containers_list)
           gpus == split_devices(row.devices)
       IN  IF stale /\ ~container.bound
           THEN Raise("UnboundLocalError") /\ UNCHANGED <<live, launches, launched>>
           ELSE IF row.status # "PENDING"
           THEN /\ df' = IF stale THEN set_status(df, container.name, "STOPPED") ELSE df
                /\ idx' = idx + 1
                /\ UNCHANGED <<pc, last_error, running_containers_list, container,
                               gpus_status_dict, live, launches, launched>>
           ELSE \E snap \in Snapshots :
                   IF \E i \in DOMAIN gpus : gpus[i] \notin DOMAIN snap
                   THEN Raise("KeyError") /\ UNCHANGED <<live, launches, launched>>
                   ELSE /\ gpus_status_dict' = snap
                        /\ idx' = idx + 1
                        /\ IF nb_processes(gpus, snap) = 0
                           THEN Launch(row)
                           ELSE UNCHANGED <<live, launches, launched>>
                        /\ UNCHANGED <<pc, last_error, df, running_containers_list, container>>
    /\ UNCHANGED <<config, args, templates_ref, sys_i, bench_i, this_benchmark_config,
                   benchmarks_params, tracking_file>>

RunCycleEnd_any_row ==
    /\ pc = "rows"
    /\ tracking_file' = [exists |-> TRUE, lines |-> to_csv(df)]
    /\ pc' = "sleep"
    /\ UNCHANGED <<config, args, templates_ref, sys_i, bench_i, this_benchmark_config,
                   benchmarks_params, df, running_containers_list, container,
                   gpus_status_dict, idx, live, launches, launched, last_error>>

\* line 213: df.to_csv overwrites the file; run_cycle returns and runner sleeps
RunCycleEnd ==
    /\ pc = "rows"
    /\ idx > Len(df)
    /\ tracking_file' = [exists |-> TRUE, lines |-> to_csv(df)]
    /\ pc' = "sleep"
    /\ UNCHANGED <<config, args, templates_ref, sys_i, bench_i, this_benchmark_config,
                   benchmarks_params, df, running_containers_list, container,
                   gpus_status_dict, idx, live, launches, launched, last_error>>

\* runner: time.sleep(15) is over, "while True" calls run_cycle again
RunnerLoop ==
    /\ pc = "sleep"
    /\ pc' = "run_cycle"
    /\ df' = <<>>
    /\ running_containers_list' = <<>>
    /\ container' = Unbound
    /\ gpus_status_dict' = NoSnapshot
    /\ idx' = 1
    /\ UNCHANGED <<config, args, templates_ref, sys_i, bench_i, this_benchmark_config,
                   benchmarks_params, tracking_file, live, launches, launched,
                   last_error>>

\* the dispatcher is stopped from outside (it has no other end)
Kill ==
    /\ pc \in {"run_cycle", "rows", "sleep"}
    /\ Raise("killed")
    /\ UNCHANGED <<config, args, templates_ref, sys_i, bench_i, this_benchmark_config,
                   benchmarks_params, tracking_file, live, launches, launched>>

Next ==
    \/ Main \/ SkipSystem \/ GenerateBenchmark \/ GenerateDone \/ Restart
    \/ RunCycleStart \/ ProcessRow \/ RunCycleEnd \/ RunnerLoop \/ Kill
    \/ ContainerStart \/ ContainerExit

Spec == Init /\ [][Next]_vars

\* the steps of runner and run_cycle
RunnerStep == RunCycleStart \/ ProcessRow \/ RunCycleEnd \/ RunnerLoop

\* one process from its start to its end: nobody starts the program again
NextLive ==
    \/ Main \/ SkipSystem \/ GenerateBenchmark \/ GenerateDone
    \/ RunCycleStart \/ ProcessRow \/ RunCycleEnd \/ RunnerLoop \/ Kill
    \/ ContainerStart \/ ContainerExit

\* the runner is sequential and goes on by itself: its next step is taken when there is
\* one; the host and the operator are under no obligation
SpecLive == InitLive /\ [][NextLive]_vars /\ WF_vars(RunnerStep)

(***************************************************************************)
(* Properties of the generation.                                           *)
(***************************************************************************)
FileRows == Rows(tracking_file)

\* the generation has handled a benchmark whose merged configuration is active
Expanded == this_benchmark_config # <<>> /\ this_benchmark_config[1].active

MergedAxes == this_benchmark_config[1].params

\* the product of the lengths of the axes after axis j
RECURSIVE Stride(_, _)
Stride(axes, j) == IF j >= Len(axes) THEN 1 ELSE Len(axes[j + 1].vals) * Stride(axes, j + 1)

\* the value of axis j in the k-th assignment of the right-fastest-varying order
OrderedValue(axes, j, k) ==
    axes[j].vals[(((k - 1) \div Stride(axes, j)) % Len(axes[j].vals)) + 1]

CartesianOrder(axes, assignments) ==
    /\ Len(assignments) = ProdLen(axes)
    /\ \A k \in DOMAIN assignments :
          /\ DOMAIN assignments[k] = AxisNames(axes)
          /\ \A j \in DOMAIN axes : assignments[k][axes[j].name] = OrderedValue(axes, j, k)

AllDistinct(seq) == \A i, j \in DOMAIN seq : i # j => seq[i] # seq[j]

\* C8 (as stated): product_dict yields as many assignments as the product of the axis
\* lengths, one value per axis, in the right-fastest-varying cartesian order, and every
\* assignment is distinct from every other, for every axis mapping.
C8_ProductAllDistinct ==
    Expanded => /\ CartesianOrder(MergedAxes, benchmarks_params)
                /\ AllDistinct(benchmarks_params)

\* C8 (amended): product_dict yields as many assignments as the product of the axis
\* lengths, one value per axis, in the right-fastest-varying cartesian order; the
\* assignments are pairwise distinct when no axis lists a value twice.
C8_ProductOfAxes ==
    Expanded => /\ CartesianOrder(MergedAxes, benchmarks_params)
                /\ (\A j \in DOMAIN MergedAxes : AllDistinct(MergedAxes[j].vals))
                       => AllDistinct(benchmarks_params)

\* two axes of two values each have been expanded to four assignments
C8_Witness ==
    /\ Expanded
    /\ Len(benchmarks_params) = 4
    /\ \E j1, j2 \in DOMAIN MergedAxes :
          j1 # j2 /\ Len(MergedAxes[j1].vals) = 2 /\ Len(MergedAxes[j2].vals) = 2

\* C4: docker_name is unique across all rows of the tracking table.
C4_DockerNameUnique ==
    \A i, j \in DOMAIN FileRows : i # j => FileRows[i].docker_name # FileRows[j].docker_name

\* C5: the container name that the stored command of a record starts is the
\* docker_name of the record.
C5_CommandStartsDockerName ==
    \A i \in DOMAIN FileRows : FileRows[i].cmd.name = FileRows[i].docker_name

\* the step handles benchmark bench_i for the active system sys_i
IsGenerateStep ==
    /\ pc = "generate"
    /\ sys_i <= Len(config.systems)
    /\ config.systems[sys_i].active
    /\ bench_i <= Len(config.benchmarks)
    /\ <<sys_i, bench_i, pc>>' # <<sys_i, bench_i, pc>>

\* the step skips the inactive system sys_i
IsSkipStep ==
    /\ pc = "generate"
    /\ sys_i <= Len(config.systems)
    /\ ~config.systems[sys_i].active
    /\ sys_i' # sys_i

\* the lines the step appends to the tracking file
Appended ==
    SubSeq(tracking_file'.lines, Len(tracking_file.lines) + 1, Len(tracking_file'.lines))

EnabledCaps(system) == SelectSeq(system.compute_capabilities, LAMBDA c : c.active)

\* the capabilities enabled on the system that have a command template
EligibleCaps(system, merged) ==
    SelectSeq(system.compute_capabilities,
              LAMBDA c : c.active /\ c.name \in DOMAIN merged.commands)

DerivedFields ==
    {"NVIDIA_VISIBLE_DEVICES", "NB_CUDA_DEVICES", "SYSTEM_NAME", "BENCHMARK_NAME", "CAPABILITY"}

Resolves(template, keys) ==
    \A i \in DOMAIN template : template[i].kind = "ph" => template[i].text \in keys

\* the templates rendered for one assignment on the system
RenderedTemplates(system, merged) ==
    IF EnabledCaps(system) = <<>> THEN {}
    ELSE Range(merged.preparation)
         \cup {merged.commands[c.name] : c \in Range(EligibleCaps(system, merged))}

\* C7: generation appends exactly one PENDING record for each tuple (active system,
\* active benchmark, enabled capability with a command template, parameter assignment of
\* the merged axes) and no record for an inactive system or benchmark: a step that
\* generates a benchmark appends (number of assignments) * (number of such capabilities)
\* records, whatever the axes are (batch-size and epochs alone, as in the example of the
\* claim). The step is held to this only when every placeholder of its templates is
\* given (C10), and the benchmark counts as active as the loop finds it (C13).
C7_OneRecordPerTupleAnyAxes ==
    [][ /\ IsGenerateStep =>
              LET merged == this_benchmark_config'[1]
                  system == config.systems[sys_i]
              IN  IF merged.active
                  THEN (\A t \in RenderedTemplates(system, merged) :
                            Resolves(t, AxisNames(merged.params) \cup DerivedFields))
                       => Len(Appended) = ProdLen(merged.params)
                                            * Len(EligibleCaps(system, merged))
                  ELSE tracking_file' = tracking_file
        /\ IsSkipStep => tracking_file' = tracking_file ]_vars

\* C10: a rendered template that references a placeholder that is neither a parameter
\* nor a derived field makes the generation of that benchmark fail without appending a
\* record, and no record of the tracking file holds an unrendered placeholder.
C10_NoUnrenderedPlaceholder ==
    /\ [](\A i \in DOMAIN FileRows :
             \A j \in DOMAIN FileRows[i].cmd.benchmark_cmd :
                 FileRows[i].cmd.benchmark_cmd[j].kind = "lit")
    /\ [][ IsGenerateStep =>
              LET merged == this_benchmark_config'[1]
                  system == config.systems[sys_i]
              IN  ( /\ merged.active
                    /\ product_dict(merged.params) # <<>>
                    /\ \E t \in RenderedTemplates(system, merged) :
                          ~Resolves(t, AxisNames(merged.params) \cup DerivedFields) )
                  => /\ pc' = "exited"
                     /\ last_error' = "KeyError"
                     /\ Appended = <<>> ]_vars

\* the generation has ended on a preparation or command template whose placeholder no
\* parameter gives, although batch-size, epochs and learning-rate are given
C10_Witness ==
    /\ pc = "exited"
    /\ last_error = "KeyError"
    /\ Expanded
    /\ {"batch-size", "epochs", "learning-rate"} \subseteq AxisNames(MergedAxes)
    /\ \E t \in RenderedTemplates(config.systems[sys_i], this_benchmark_config[1]) :
          ~Resolves(t, AxisNames(MergedAxes) \cup DerivedFields)

(***************************************************************************)
(* Properties of the dispatcher.                                           *)
(***************************************************************************)
\* the step is one iteration of the loop over the rows that reaches a PENDING row and
\* goes on to the next row
IsPendingRowStep ==
    /\ pc = "rows"
    /\ idx <= Len(df)
    /\ df[idx].status = "PENDING"
    /\ pc' = "rows"
    /\ idx' = idx + 1

\* the step persists the table of the pass
IsPersistStep == pc = "rows" /\ pc' = "sleep"

\* C1: a record that is PENDING when the pass reaches it is launched if and only if no
\* device assigned to it has a process in the occupancy queried for it; the devices
\* not assigned to it do not count, and nothing limits the launches of one pass.
C1_LaunchIffDevicesIdle ==
    [][ IsPendingRowStep =>
           ( (idx \in launched')
             <=> \A g \in Range(split_devices(df[idx].devices)) : gpus_status_dict'[g] = 0 )
      ]_vars

\* both records of a pass have been launched, the second one on device 0 while the
\* occupancy reports a process on device 1
C1_Witness ==
    /\ pc = "rows"
    /\ idx = 3
    /\ launched = {1, 2}
    /\ df[2].devices = "0"
    /\ gpus_status_dict[0] = 0
    /\ gpus_status_dict[1] = 1

\* C2: the persisted status of a record only moves PENDING->RUNNING or RUNNING->STOPPED
\* (a pass may persist both moves at once): a STOPPED record never changes status again,
\* and a RUNNING record never returns to PENDING.
C2_StatusMonotone ==
    [][ IsPersistStep =>
           \A i \in DOMAIN FileRows :
               LET old == FileRows[i].status
                   new == Rows(tracking_file')[i].status
               IN  \/ new = old
                   \/ old = "PENDING" /\ new \in {"RUNNING", "STOPPED"}
                   \/ old = "RUNNING" /\ new = "STOPPED"
      ]_vars

\* C3: the records a pass marks STOPPED are exactly the records that are RUNNING in the
\* table and whose docker_name is not in the live container set.
C3_StaleRecordStopped ==
    [][ IsPersistStep =>
           \A i \in DOMAIN FileRows :
               LET old == FileRows[i].status
                   new == Rows(tracking_file')[i].status
                   absent == FileRows[i].docker_name \notin Range(running_containers_list)
               IN  /\ (old = "RUNNING" /\ absent) => new = "STOPPED"
                   /\ (new = "STOPPED" /\ old # "STOPPED") => (old = "RUNNING" /\ absent)
      ]_vars

\* C6: a record launched by an earlier pass, whose container is alive when the pass lists
\* the containers, is not PENDING in the table the pass persists.
C6_LaunchedBecomesRunning ==
    pc = "sleep" =>
        \A i \in DOMAIN FileRows :
            ( /\ launches[i] > 0
              /\ i \notin launched
              /\ FileRows[i].cmd.name \in Range(running_containers_list) )
            => FileRows[i].status # "PENDING"

\* C9: an error raised while a record is handled does not end the pass: the loop goes on
\* to the other records and the table is persisted (only a kill from outside ends it).
C9_ErrorDoesNotAbortPass ==
    [][ pc = "rows" => (pc' \in {"rows", "sleep"} \/ last_error' = "killed") ]_vars

\* the devices two rows of the DataFrame share
SharedDevices(i, j) ==
    Range(split_devices(df[i].devices)) \cap Range(split_devices(df[j].devices))

\* C11: within a pass the records are launched one after the other: the launch of a record
\* (and the delay that ends its iteration) is over when the next PENDING record is
\* evaluated, and that record is decided on the occupancy queried in its own iteration;
\* when that occupancy reports a process on a device it shares with a record launched
\* earlier in the pass, it is not launched in the pass.
C11_SharedDeviceNotLaunchedTwice ==
    [][ IsPendingRowStep =>
           /\ \A j \in launched : j < idx
           /\ (\E j \in launched : \E g \in SharedDevices(idx, j) : gpus_status_dict'[g] > 0)
                  => idx \notin launched'
      ]_vars

\* the first record was launched, and the second one, PENDING on the same devices, was
\* evaluated on an occupancy that reports a process on device 0 and was not launched
C11_Witness ==
    /\ pc = "rows"
    /\ idx = 3
    /\ launched = {1}
    /\ df[2].status = "PENDING"
    /\ df[2].devices = df[1].devices
    /\ gpus_status_dict[0] > 0

\* C12: a pass changes nothing but the status column: the table it persists has the rows
\* of the table it loaded, in the same order, and benchmark_name, system_name, devices,
\* docker_name and cmd of every row are unchanged; no pass adds or removes a row.
C12_OnlyStatusChanges ==
    [][ IsPersistStep =>
           /\ Len(Rows(tracking_file')) = Len(FileRows)
           /\ \A i \in DOMAIN FileRows :
                 [Rows(tracking_file')[i] EXCEPT !.status = FileRows[i].status] = FileRows[i]
      ]_vars

\* C13: the template is not modified by a merge: the merged configuration used for a
\* benchmark (active flag, axes, preparation, command templates) is the merge of the
\* template as loaded with the overrides of that benchmark alone, whatever benchmarks
\* and systems were handled before.
C13_TemplateImmutable ==
    [][ IsGenerateStep =>
           LET benchmark == config.benchmarks[bench_i]
               loaded == config.benchmarks_template[benchmark.config.benchmark_template]
           IN  this_benchmark_config'[1] = merge(loaded, benchmark.config)
      ]_vars

\* the docker_name column that a generation from the configuration writes when it ends
\* without an error: for the active systems in order, the benchmarks in order (the
\* template merged as the loop merges it), the assignments in order, the capabilities
\* enabled on the system that have a command template, the name of the tuple
RECURSIVE GeneratedNames(_, _, _, _)
GeneratedNames(cfg, templates, s, b) ==
    IF s > Len(cfg.systems) THEN <<>>
    ELSE IF ~cfg.systems[s].active \/ b > Len(cfg.benchmarks)
    THEN GeneratedNames(cfg, templates, s + 1, 1)
    ELSE LET system == cfg.systems[s]
             benchmark == cfg.benchmarks[b]
             tname == benchmark.config.benchmark_template
             merged == merge(templates[tname], benchmark.config)
             caps == EligibleCaps(system, merged)
             names == [c \in DOMAIN caps |->
                          benchmark.name \o "-" \o system.name \o "-" \o caps[c].name]
             n == IF merged.active THEN Len(product_dict(merged.params)) ELSE 0
         IN  Flatten([k \in 1..n |-> names])
             \o GeneratedNames(cfg, [templates EXCEPT ![tname] = merged], s, b + 1)

NamesOfConfig == GeneratedNames(config, config.benchmarks_template, 1, 1)

DockerNames(rows) == [i \in DOMAIN rows |-> rows[i].docker_name]

\* the step ends a generation that raised no error
IsGenerationEnd == pc = "generate" /\ pc' # "generate" /\ last_error' = "none"

\* C14: docker_name is a function of the tuple of the record alone (benchmark, system,
\* capability), and every generation from the configuration that ends without an error
\* writes the same identifiers in the same order, whatever the tracking file held and
\* whichever generations ran before: in append mode they follow the rows of the file,
\* otherwise they are the whole file.
C14_DockerNameIdempotent ==
    /\ [](\A i \in DOMAIN FileRows :
             FileRows[i].docker_name =
                 FileRows[i].benchmark_name \o "-" \o FileRows[i].system_name
                     \o "-" \o FileRows[i].cmd.capability)
    /\ [][ IsGenerationEnd =>
              LET names == DockerNames(Rows(tracking_file'))
                  n == Len(names)
                  g == Len(NamesOfConfig)
              IN  /\ n >= g
                  /\ SubSeq(names, n - g + 1, n) = NamesOfConfig
                  /\ ~args.append_to_tracking_file => n = g ]_vars

\* a second generation, in append mode, has ended: the file holds the identifiers of the
\* configuration twice
C14_Witness ==
    /\ pc = "exited"
    /\ last_error = "none"
    /\ args.append_to_tracking_file
    /\ Len(NamesOfConfig) > 0
    /\ DockerNames(FileRows) = NamesOfConfig \o NamesOfConfig

\* the step evaluates row idx of the DataFrame and goes on to the next row
IsRowStep == pc = "rows" /\ idx <= Len(df) /\ pc' = "rows" /\ idx' = idx + 1

\* the record is PENDING in the tracking file and named like a container of the listing
LivePending(i) ==
    /\ FileRows[i].status = "PENDING"
    /\ FileRows[i].docker_name \in Range(running_containers_list)

\* C15: a record that is PENDING in the tracking file and whose docker_name is the name
\* of a live container when the pass lists the containers is not launched in the pass,
\* whatever occupancy is queried, and is RUNNING in the table the pass persists.
C15_LivePendingAdopted ==
    [][ /\ (IsRowStep /\ LivePending(idx)) => idx \notin launched'
        /\ IsPersistStep =>
              \A i \in DOMAIN FileRows :
                  LivePending(i) => Rows(tracking_file')[i].status = "RUNNING"
      ]_vars

\* C16 (as stated): the occupancy and the container listing are sampled once at the start
\* of a pass and are those of every decision of the pass: the occupancy is not queried
\* again while the rows are handled.
C16_SingleOccupancySnapshot ==
    [][ (pc = "rows" /\ pc' = "rows") =>
           /\ running_containers_list' = running_containers_list
           /\ gpus_status_dict' = gpus_status_dict
      ]_vars

\* C16 (amended): the container listing is sampled once at the start of a pass and is the
\* one of every decision of the pass (a record is marked STOPPED only for a row that is
\* absent from it). The occupancy is sampled at the start of the pass and queried again
\* for every PENDING record the pass evaluates: the record is launched if and only if the
\* occupancy queried for it reports its devices idle, whatever the earlier samples said;
\* no occupancy is queried and nothing is launched for a record that is not PENDING.
C16_OccupancyQueriedPerPending ==
    [][ IsRowStep =>
           /\ running_containers_list' = running_containers_list
           /\ df[idx].status # "PENDING" =>
                 /\ gpus_status_dict' = gpus_status_dict
                 /\ launched' = launched
                 /\ df' # df => df[idx].docker_name \notin Range(running_containers_list)
           /\ df[idx].status = "PENDING" =>
                 /\ df' = df
                 /\ (idx \in launched')
                        <=> (sum_processes(split_devices(df[idx].devices), gpus_status_dict') = 0)
      ]_vars

\* two PENDING records on the same devices were decided differently in one pass: the
\* first was not launched, the second was, on an occupancy that reports the devices idle
C16_Witness ==
    /\ pc = "rows"
    /\ idx = 3
    /\ launched = {2}
    /\ df[1].status = "PENDING"
    /\ df[2].status = "PENDING"
    /\ df[1].devices = df[2].devices
    /\ \A g \in Range(split_devices(df[2].devices)) : gpus_status_dict[g] = 0

\* the step is main's handling of the tracking file, for the flags of the process
IsMainStep == pc = "main" /\ pc' # "main"

HeaderOnly == [exists |-> TRUE, lines |-> <<HeaderLine>>]

\* C17: when the generation starts, the tracking file is reset to the header alone unless
\* appending is requested and the file exists; in that case the file is left as it is, and
\* every record the generation writes is appended after the lines of the file, which keeps
\* its one header. When the generation is skipped (run_only or skip_generate_tracking)
\* the file is not modified before the dispatcher starts.
C17_ResetUnlessAppend ==
    [][ /\ IsMainStep =>
              IF args.run_only \/ args.skip_generate_tracking
              THEN tracking_file' = tracking_file /\ pc' \in {"run_cycle", "exited"}
              ELSE IF args.append_to_tracking_file /\ tracking_file.exists
              THEN tracking_file' = tracking_file /\ pc' = "generate"
              ELSE tracking_file' = HeaderOnly /\ pc' = "generate"
        /\ pc = "generate" =>
              /\ tracking_file'.exists
              /\ Len(tracking_file'.lines) >= Len(tracking_file.lines)
              /\ SubSeq(tracking_file'.lines, 1, Len(tracking_file.lines)) = tracking_file.lines
              /\ \A i \in DOMAIN Appended : Appended[i].kind = "row"
      ]_vars

\* a generation in append mode has ended on a file that held records: the file has its
\* one header, the records it held and the new records after them
C17_Witness ==
    /\ pc = "exited"
    /\ last_error = "none"
    /\ args.append_to_tracking_file /\ ~args.run_only /\ ~args.skip_generate_tracking
    /\ Len(NamesOfConfig) > 0
    /\ Len(FileRows) > Len(NamesOfConfig)
    /\ tracking_file.lines[1] = HeaderLine
    /\ \A i \in DOMAIN FileRows : FileRows[i].kind = "row"

\* C18: the runner has no end of its own: whatever the table, the live containers and the
\* occupancy are, a pass that has loaded the table is eventually followed by the start
\* of another pass, unless the dispatcher is stopped from outside.
C18_PassFollowedByPass ==
    (pc = "rows") ~> (pc = "run_cycle" \/ last_error = "killed")

\* C19: the command of a record is issued at most once over the passes of the dispatcher
\* on the tracking file: a record whose command was issued is not launched again, be its
\* container live, gone or never started.
C19_LaunchedAtMostOnce ==
    [][ (IsRowStep /\ idx \in launched') => launches[idx] = 0 ]_vars

\* C20: the tracking file is written only as the last step of a pass, when every row has
\* been handled: a step of a pass that is not this one leaves the file as it is, so when
\* a pass ends with an error the file is the one the pass loaded, also after launches.
C20_FileWrittenLast ==
    [][ (pc \in {"run_cycle", "rows"}) =>
           /\ tracking_file' # tracking_file =>
                 /\ pc = "rows" /\ idx > Len(df)
                 /\ pc' = "sleep"
                 /\ tracking_file'.lines = to_csv(df)
           /\ pc' = "exited" => tracking_file' = tracking_file
      ]_vars

\* a pass has ended with an error after it had issued the command of a record: the file
\* still has the record as it was loaded
C20_Witness ==
    /\ pc = "exited"
    /\ last_error \in {"KeyError", "UnboundLocalError"}
    /\ launched # {}
    /\ \A i \in launched : FileRows[i].status = "PENDING"

====
